---- MODULE Spec2Model ----
(***************************************************************************)
(* A model of src/platform/web/web.c, the web platform layer of PicoDrive: *)
(* the video presentation adapter, the bounded memory stream used for save *)
(* states, and the save/load bridge that drives the core's serializer.      *)
(*                                                                         *)
(* The layer is built for Emscripten (wasm32): int, long and size_t are    *)
(* 32 bits wide.  A 32-bit word is represented by its two's-complement     *)
(* signed value, so that the casts (int)x and (size_t)x are the identity   *)
(* on the representation and size_t comparisons are unsigned comparisons.  *)
(***************************************************************************)
EXTENDS Integers, Sequences, FiniteSets, TLC

(***************************************************************************)
(* Bounds of the model.                                                    *)
(***************************************************************************)
\* number of stream callbacks the serializer makes in one behaviour
MaxOps == 3

(***************************************************************************)
(* 32-bit machine words.                                                   *)
(***************************************************************************)
MaxInt == 2147483647
MinInt == (-MaxInt) - 1

\* a + b modulo 2^32
AddW(a, b) ==
    IF a > 0 /\ b > 0 /\ a > MaxInt - b
    THEN ((a - MaxInt) - 1) + ((b - MaxInt) - 1)
    ELSE IF a < 0 /\ b < 0 /\ a < MinInt - b
    THEN ((a + MaxInt) + 1) + ((b + MaxInt) + 1)
    ELSE a + b

\* -a modulo 2^32
NegW(a) == IF a = MinInt THEN MinInt ELSE -a

\* a - b modulo 2^32
SubW(a, b) == AddW(a, NegW(b))

\* a > b, both read as unsigned (size_t)
GtU(a, b) == IF (a < 0) = (b < 0) THEN a > b ELSE a < 0

\* a >= b, both read as unsigned (size_t)
GeU(a, b) == a = b \/ GtU(a, b)

RECURSIVE MulPos(_, _)
\* a * b modulo 2^32 for 0 <= b, by doubling
MulPos(a, b) ==
    IF b = 0 THEN 0
    ELSE LET h == MulPos(a, b \div 2)
         IN  IF b % 2 = 0 THEN AddW(h, h) ELSE AddW(a, AddW(h, h))

\* a * b modulo 2^32 (size * nmemb in size_t)
MulW(a, b) ==
    IF b >= 0 THEN MulPos(a, b)
    ELSE AddW(MulPos(a, (b + MaxInt) + 1), IF a % 2 = 0 THEN 0 ELSE MinInt)

(***************************************************************************)
(* Memory regions as run-length sequences <<length, value>>: a buffer of   *)
(* STATE_MAX_SIZE bytes is held exactly, byte for byte, without listing    *)
(* two million entries.  Uninit is the indeterminate content malloc leaves.*)
(***************************************************************************)
STATE_MAX_SIZE == 2 * 1024 * 1024
Uninit == -1
\* the byte values the serializer and the host put into a blob
Bytes == {0, 1}

RECURSIVE RLen(_)
RLen(r) == IF r = << >> THEN 0 ELSE r[1][1] + RLen(Tail(r))

RECURSIVE RNorm(_)
\* canonical form: no empty run, no two neighbours with the same value
RNorm(r) ==
    IF r = << >> THEN << >>
    ELSE IF r[1][1] = 0 THEN RNorm(Tail(r))
    ELSE IF Len(r) = 1 THEN r
    ELSE IF r[2][1] = 0 THEN RNorm(<<r[1]>> \o Tail(Tail(r)))
    ELSE IF r[1][2] = r[2][2]
    THEN RNorm(<< <<r[1][1] + r[2][1], r[1][2]>> >> \o Tail(Tail(r)))
    ELSE <<r[1]>> \o RNorm(Tail(r))

RECURSIVE RTake(_, _)
\* the first n bytes of r
RTake(r, n) ==
    IF n <= 0 \/ r = << >> THEN << >>
    ELSE IF r[1][1] >= n THEN << <<n, r[1][2]>> >>
    ELSE <<r[1]>> \o RTake(Tail(r), n - r[1][1])

RECURSIVE RDrop(_, _)
\* r without its first n bytes
RDrop(r, n) ==
    IF n <= 0 \/ r = << >> THEN r
    ELSE IF r[1][1] > n THEN << <<r[1][1] - n, r[1][2]>> >> \o Tail(r)
    ELSE RDrop(Tail(r), n - r[1][1])

\* bytes [pos, pos + n) of r
RSlice(r, pos, n) == RNorm(RTake(RDrop(r, pos), n))

\* memcpy(r + pos, d, n): the first n bytes of d stored at pos
RStore(r, pos, d, n) ==
    RNorm(RTake(r, pos) \o RTake(d, n) \o RDrop(r, pos + n))

\* the byte at index i of r
RByte(r, i) == RSlice(r, i, 1)[1][2]

\* the source operand of a Write: n bytes, the first one a, the others b
Data(a, b, n) == RNorm(<< <<IF n > 0 THEN 1 ELSE 0, a>>, <<IF n > 1 THEN n - 1 ELSE 0, b>> >>)

(***************************************************************************)
(* struct state_context and the stream callbacks.                          *)
(* A callback is an operator from the context, the backing buffer and the  *)
(* arguments to the new context, the new buffer, the value returned and    *)
(* the memcpy it made (copy: first index and length, length 0 for none).   *)
(* ub is TRUE when that memcpy leaves the STATE_MAX_SIZE bytes of the      *)
(* backing buffer or goes through a NULL buffer pointer: undefined         *)
(* behaviour (a trap, or unrelated memory read or overwritten), after      *)
(* which the run is not followed further.                                  *)
(***************************************************************************)
NULL == "NULL"
BUF == "state_buffer"

state_context(load_buf, save_buf, size, pos) ==
    [load_buf |-> load_buf, save_buf |-> save_buf, size |-> size, pos |-> pos]

\* memcpy of n bytes at index pos of buf stays inside the malloc'ed buffer
InBuffer(buf, pos, n) ==
    \/ n = 0
    \/ /\ buf # NULL
       /\ pos >= 0 /\ n > 0
       /\ pos < STATE_MAX_SIZE /\ n <= STATE_MAX_SIZE - pos

\* "if (ctx->pos + bsize > ctx->size)"
Clipped(c, bsize) == GtU(AddW(c.pos, bsize), c.size)

\* "bsize = ctx->size - ctx->pos; if ((int)bsize <= 0) return 0;"
EarlyReturn(c, bsize) == Clipped(c, bsize) /\ SubW(c.size, c.pos) <= 0

\* the request handed to memcpy as it came
ClipBsizeNone(c, bsize) == bsize

\* the bsize handed to memcpy
ClipBsize(c, bsize) == IF Clipped(c, bsize) THEN SubW(c.size, c.pos) ELSE bsize

state_read_cb(c, mem, size, nmemb) ==
    LET req   == MulW(size, nmemb)
        bsize == ClipBsize(c, req)
    IN
    IF EarlyReturn(c, req)
    THEN [ctx |-> c, mem |-> mem, ret |-> 0, copy |-> <<c.pos, 0>>,
          data |-> << >>, ub |-> FALSE]
    ELSE IF ~InBuffer(c.load_buf, c.pos, bsize)
    THEN [ctx |-> c, mem |-> mem, ret |-> bsize, copy |-> <<c.pos, bsize>>,
          data |-> << >>, ub |-> TRUE]
    ELSE [ctx |-> [c EXCEPT !.pos = AddW(c.pos, bsize)], mem |-> mem,
          ret |-> bsize, copy |-> <<c.pos, bsize>>,
          data |-> RSlice(mem, c.pos, bsize), ub |-> FALSE]

state_write_cb(c, mem, p, size, nmemb) ==
    LET req   == MulW(size, nmemb)
        bsize == ClipBsize(c, req)
    IN
    IF EarlyReturn(c, req)
    THEN [ctx |-> c, mem |-> mem, ret |-> 0, copy |-> <<c.pos, 0>>,
          data |-> << >>, ub |-> FALSE]
    ELSE IF ~InBuffer(c.save_buf, c.pos, bsize)
    THEN [ctx |-> c, mem |-> mem, ret |-> bsize, copy |-> <<c.pos, bsize>>,
          data |-> << >>, ub |-> TRUE]
    ELSE [ctx |-> [c EXCEPT !.pos = AddW(c.pos, bsize)],
          mem |-> RStore(mem, c.pos, p, bsize),
          ret |-> bsize, copy |-> <<c.pos, bsize>>,
          data |-> RNorm(RTake(p, bsize)), ub |-> FALSE]

state_skip_cb(c, mem, size, nmemb) ==
    LET bsize == MulW(size, nmemb) IN
    [ctx |-> [c EXCEPT !.pos = AddW(c.pos, bsize)], mem |-> mem,
     ret |-> bsize, copy |-> <<c.pos, 0>>, data |-> << >>, ub |-> FALSE]

state_eof_cb(c, mem) ==
    [ctx |-> c, mem |-> mem, ret |-> IF GeU(c.pos, c.size) THEN 1 ELSE 0,
     copy |-> <<c.pos, 0>>, data |-> << >>, ub |-> FALSE]

SEEK_SET == 0
SEEK_CUR == 1
SEEK_END == 2

state_seek_cb(c, mem, offset, whence) ==
    LET pos == CASE whence = SEEK_SET -> offset
                 [] whence = SEEK_CUR -> AddW(c.pos, offset)
                 [] whence = SEEK_END -> AddW(c.size, offset)
                 [] OTHER -> c.pos
    IN  [ctx |-> [c EXCEPT !.pos = pos], mem |-> mem, ret |-> pos,
         copy |-> <<pos, 0>>, data |-> << >>, ub |-> FALSE]

(***************************************************************************)
(* The program's state: the statics of web.c, the part of the core's state *)
(* web.c sets (core; its field reported records that the core has called   *)
(* emu_video_mode_change), what the host was told (host), and the position *)
(* the single thread of control (pc): "start" before main, "idle" between  *)
(* API calls, "save" or                                                    *)
(* "load" while PicoStateFP runs inside pico_state_save / pico_state_load  *)
(* and calls the stream callbacks back, "ub" after undefined behaviour.    *)
(***************************************************************************)
VARIABLES
    emu_initialized, game_loaded, rom_data, rom_size,
    vout_buf, vout_width, vout_height, vout_offset,
    vm_current_start_line, vm_current_line_count,
    vm_current_start_col, vm_current_col_count,
    snd_buffer, core, host,
    state_buffer, state_mem, state_size,
    ctx, pc, nops, cb, ret, hist

lifecycle == <<emu_initialized, game_loaded, rom_data, rom_size>>
video == <<vout_buf, vout_width, vout_height, vout_offset,
           vm_current_start_line, vm_current_line_count,
           vm_current_start_col, vm_current_col_count>>
blob == <<state_buffer, state_mem, state_size>>
stream == <<ctx, pc, nops, cb>>
vars == <<lifecycle, video, snd_buffer, core, host, blob, stream, ret, hist>>

VOUT_MAX_WIDTH == 320
VOUT_MAX_HEIGHT == 240
SND_RATE == 44100
SND_MAX_SAMPLES == (SND_RATE \div 50) * 2

NoCtx == state_context(NULL, NULL, 0, 0)
NoCb == [op |-> "none", ret |-> 0, req |-> 0, copy |-> <<0, 0>>, data |-> << >>]
\* history of the running (or just finished) save or load, kept for the
\* properties only: wlog the bytes handed to Write, in order; rlog the bytes
\* Read returned, in order; seq: no Seek was made; short: some Write took
\* fewer bytes than it was given; rt: the load directly follows a successful
\* save that made no Seek, and has made none itself; before: the host's view
\* of the blob when the save was called; had: a blob of 1 .. STATE_MAX_SIZE
\* bytes the host or an earlier save had written existed then; same: the
\* host's view when the save returned is the one it had before; sought: the
\* stream has served a Seek; final: the cursor the stream of the last
\* successful save ended with
NoHist == [wlog |-> << >>, rlog |-> << >>, seq |-> FALSE, short |-> FALSE,
           rt |-> FALSE, before |-> << >>, had |-> FALSE, same |-> FALSE,
           sought |-> FALSE, final |-> 0]

\* the host side of the EM_ASM blocks: the handlers the page has installed
\* (window.onVideoModeChange, window.onAudioWrite), the last video
\* notification, and what the last call that reached the core delivered:
\* notes, the number of video notifications; audio, the audio packets in order
NoHost == [video |-> << >>, notes |-> 0, audio |-> << >>,
           onVideoModeChange |-> FALSE, onAudioWrite |-> FALSE]

\* what a callback leaves in cb: the call, its result and the memcpy it made
CbOf(op, req, r) ==
    [op |-> op, ret |-> r.ret, req |-> req, copy |-> r.copy, data |-> r.data]

Init ==
    /\ emu_initialized = 0
    /\ game_loaded = 0
    /\ rom_data = NULL
    /\ rom_size = 0
    /\ vout_buf = << <<VOUT_MAX_WIDTH * VOUT_MAX_HEIGHT, 0>> >>
    /\ vout_width = VOUT_MAX_WIDTH
    /\ vout_height = VOUT_MAX_HEIGHT
    /\ vout_offset = 0
    /\ vm_current_start_line = -1
    /\ vm_current_line_count = -1
    /\ vm_current_start_col = -1
    /\ vm_current_col_count = -1
    /\ snd_buffer = << <<SND_MAX_SAMPLES * 2, 0>> >>
    /\ core = [up |-> FALSE, cart |-> FALSE, out_format |-> "none",
               out_pitch |-> 0, dirtyPal |-> 0, reported |-> FALSE]
    /\ host = NoHost
    /\ state_buffer = NULL
    /\ state_mem = << >>
    /\ state_size = 0
    /\ ctx = NoCtx
    /\ pc = "start"
    /\ nops = 0
    /\ cb = NoCb
    /\ ret = [fn |-> "none", val |-> 0, why |-> "none", arg |-> << >>,
              calls |-> << >>]
    /\ hist = NoHist

(***************************************************************************)
(* Host-visible queries.                                                   *)
(***************************************************************************)
pico_get_video_buffer == vout_offset
pico_get_video_width == vout_width
pico_get_video_height == vout_height
pico_get_state_buffer == state_buffer
pico_get_state_size == state_size
pico_state_exists == IF state_buffer # NULL /\ state_size # 0 THEN 1 ELSE 0

\* the state blob as the host sees it: the bytes of the backing buffer, the
\* size pico_get_state_size returns and the answer of pico_state_exists
HostBlob == <<state_mem, pico_get_state_size, pico_state_exists>>

\* a blob exists, fits the buffer, and none of its bytes is indeterminate
BlobWritten ==
    /\ pico_state_exists = 1
    /\ state_size > 0 /\ state_size <= STATE_MAX_SIZE
    /\ \A i \in 1..Len(RSlice(state_mem, 0, state_size)) :
         RSlice(state_mem, 0, state_size)[i][2] # Uninit

(***************************************************************************)
(* Video presentation adapter.                                             *)
(* The int products below are computed exactly: the mode values the model  *)
(* draws keep them far inside the int range.                               *)
(***************************************************************************)
PDF_RGB555 == "PDF_RGB555"
VoutZero == << <<VOUT_MAX_WIDTH * VOUT_MAX_HEIGHT, 0>> >>

\* "if (vout_height > VOUT_MAX_HEIGHT) vout_height = VOUT_MAX_HEIGHT;"
ClampHeight(h) == IF h > VOUT_MAX_HEIGHT THEN VOUT_MAX_HEIGHT ELSE h

\* the offset left as computed
ClampOffsetNone(off, w) == off

\* "if (vout_offset > vout_width * (VOUT_MAX_HEIGHT - 1) * 2) vout_offset = ..."
ClampOffset(off, w) ==
    IF off > w * (VOUT_MAX_HEIGHT - 1) * 2
    THEN w * (VOUT_MAX_HEIGHT - 1) * 2
    ELSE off

\* PicoDrawSetOutBuf(vout_buf, pitch), seen from this layer
PicoDrawSetOutBuf(c, pitch) == [c EXCEPT !.out_pitch = pitch]

\* PicoDrawSetOutFormat(fmt, 0), seen from this layer
PicoDrawSetOutFormat(c, fmt) == [c EXCEPT !.out_format = fmt]

\* the EM_ASM block of emu_video_mode_change: window.onVideoModeChange(w, h)
\* when the page has installed it
NotifyVideo(h, width, height) ==
    IF h.onVideoModeChange
    THEN [h EXCEPT !.video = <<width, height>>, !.notes = @ + 1]
    ELSE h

\* emu_video_mode_change entered with the core's state c and the host's h
ModeChange(c, h, start_line, line_count, start_col, col_count) ==
    /\ vm_current_start_line' = start_line
    /\ vm_current_line_count' = line_count
    /\ vm_current_start_col' = start_col
    /\ vm_current_col_count' = col_count
    /\ vout_width' = col_count
    /\ vout_height' = ClampHeight(line_count)
    /\ vout_buf' = VoutZero
    /\ vout_offset' = ClampOffset(col_count * start_line * 2, col_count)
    /\ host' = NotifyVideo(h, col_count, ClampHeight(line_count))
    /\ core' = [PicoDrawSetOutBuf(c, col_count * 2) EXCEPT !.dirtyPal = 1,
                                                           !.reported = TRUE]

emu_video_mode_change(start_line, line_count, start_col, col_count) ==
    ModeChange(core, host, start_line, line_count, start_col, col_count)

\* "if we have valid mode info"
HaveMode ==
    /\ vm_current_start_line # -1
    /\ vm_current_line_count # -1
    /\ vm_current_start_col # -1
    /\ vm_current_col_count # -1

\* emu_32x_startup entered with the core's state c and the host's h
Startup32x(c, h) ==
    IF HaveMode
    THEN ModeChange(PicoDrawSetOutFormat(c, PDF_RGB555), h,
                    vm_current_start_line, vm_current_line_count,
                    vm_current_start_col, vm_current_col_count)
    ELSE /\ core' = PicoDrawSetOutBuf(PicoDrawSetOutFormat(c, PDF_RGB555),
                                      vout_width * 2)
         /\ host' = h
         /\ UNCHANGED video

emu_32x_startup == Startup32x(core, host)

(***************************************************************************)
(* Audio delivery.  snd_buffer is held in int16 samples.                   *)
(***************************************************************************)
\* the length counted in int16 values instead of stereo frames
SamplesMono(len) == IF len >= 0 THEN len \div 2 ELSE -((-len) \div 2)

\* "int samples = len / 4": C division, towards zero
Samples(len) == IF len >= 0 THEN len \div 4 ELSE -((-len) \div 4)

\* the Int16Array snd_write fills: HEAP16[(ptr >> 1) + i] for i below
\* samples * 2, starting at PicoIn.sndOut = snd_buffer; what lies after the
\* buffer is not the buffer's
AudioPacket(buf, len) ==
    RSlice(buf \o << <<Samples(len) * 2, Uninit>> >>, 0, Samples(len) * 2)

\* snd_write(len) with the host's state h: one packet to window.onAudioWrite
\* when the page has installed it.  With len <= -4 the length of the array,
\* samples * 2, is negative: "new Int16Array" throws RangeError before the
\* handler is called, and nothing is delivered
snd_write(h, buf, len) ==
    IF h.onAudioWrite /\ Samples(len) >= 0
    THEN [h EXCEPT !.audio = Append(@, AudioPacket(buf, len))]
    ELSE h

\* the visible rectangle, in bytes of vout_buf: [offset, offset + w * h * 2)
VisibleEnd == vout_offset + vout_width * vout_height * 2
VoutBytes == VOUT_MAX_WIDTH * VOUT_MAX_HEIGHT * 2

(***************************************************************************)
(* The emulation core, seen from this layer.  Its code is not part of      *)
(* web.c; PicoFrame, PicoLoadMedia and PicoStateFP are modelled by what    *)
(* the layer's contract says of them: a frame may report one mode change   *)
(* and draws into the buffer it was pointed at; loading may fail; the      *)
(* serializer makes stream callbacks and returns a status.                 *)
(***************************************************************************)
\* one frame drawn by the core: the first visible sample and the first
\* audio sample are written, the palette is resolved
PicoFrameDraw(buf, off) ==
    IF off >= 0 /\ off \div 2 < VOUT_MAX_WIDTH * VOUT_MAX_HEIGHT
    THEN RStore(buf, off \div 2, << <<1, 1>> >>, 1)
    ELSE buf

\* the samples of one frame: the core leaves v in the first sample
PicoFrameSound(buf, v) == RStore(buf, 0, << <<1, v>> >>, 1)

\* the outcome of a call: the function, the value it returned and, for the
\* properties, the branch that returned it, what the core did meanwhile
\* (arg) and the functions of the core the call called, in order (calls)
Result(fn, val, why) ==
    [fn |-> fn, val |-> val, why |-> why, arg |-> << >>, calls |-> << >>]

\* the same for a call that called into the core
ResultCore(fn, val, why, calls) ==
    [Result(fn, val, why) EXCEPT !.calls = calls]

\* the host's record at the start of a call that reaches the core
Fresh(h) == [h EXCEPT !.notes = 0, !.audio = << >>]

\* an API call other than save and load ends here
Done(fn, val, why) ==
    /\ ret' = Result(fn, val, why)
    /\ hist' = NoHist

\* the same for a call that called into the core
DoneCore(fn, val, why, calls) ==
    /\ ret' = ResultCore(fn, val, why, calls)
    /\ hist' = NoHist

(***************************************************************************)
(* Lifecycle.                                                              *)
(***************************************************************************)
\* the body of pico_init past its guard
InitBody ==
    /\ core' = [up |-> TRUE, cart |-> FALSE, out_format |-> PDF_RGB555,
                out_pitch |-> vout_width * 2, dirtyPal |-> core.dirtyPal,
                reported |-> core.reported]
    /\ emu_initialized' = 1

\* the functions of the core pico_init calls
InitCalls == <<"PicoInit", "PicoDrawSetOutFormat", "PicoDrawSetOutBuf",
               "PicoSetInputDevice", "PicoSetInputDevice">>

main ==
    /\ pc = "start"
    /\ pc' = "idle"
    /\ InitBody
    /\ DoneCore("main", 0, "ok", InitCalls)
    /\ UNCHANGED <<game_loaded, rom_data, rom_size, video, snd_buffer, host,
                   blob, ctx, nops, cb>>

pico_init ==
    /\ pc = "idle"
    /\ IF emu_initialized # 0
       THEN /\ UNCHANGED <<core, emu_initialized>>
            /\ Done("pico_init", 1, "already")
       ELSE /\ InitBody
            /\ DoneCore("pico_init", 1, "ok", InitCalls)
    /\ UNCHANGED <<game_loaded, rom_data, rom_size, video, snd_buffer, host,
                   blob, stream>>

pico_exit ==
    /\ pc = "idle"
    /\ IF emu_initialized = 0
       THEN /\ UNCHANGED <<lifecycle, core>>
            /\ Done("pico_exit", 0, "not_initialized")
       ELSE /\ rom_data' = NULL
            /\ rom_size' = IF rom_data # NULL THEN 0 ELSE rom_size
            /\ core' = [core EXCEPT !.up = FALSE, !.cart = FALSE]
            /\ emu_initialized' = 0
            /\ game_loaded' = 0
            /\ DoneCore("pico_exit", 0, "ok", <<"PicoExit">>)
    /\ UNCHANGED <<video, snd_buffer, host, blob, stream>>

pico_get_rom_buffer(size) ==
    /\ pc = "idle"
    /\ \E m \in {NULL, "rom"} :
         /\ rom_data' = m
         /\ Done("pico_get_rom_buffer", m, "ok")
    /\ rom_size' = size
    /\ UNCHANGED <<emu_initialized, game_loaded, video, snd_buffer, core, host,
                   blob, stream>>

\* file names as sequences of characters
Filenames == { <<"a", ".", "b", "i", "n">>, <<"a", ".", "3", "2", "x">>,
               <<"a", ".", "3", "2", "X">>, <<"3", "2", "x">> }

\* "filename ends with .32x (case insensitive)"
Ends32x(f) ==
    /\ Len(f) >= 4
    /\ f[Len(f) - 3] = "."
    /\ f[Len(f) - 2] = "3"
    /\ f[Len(f) - 1] = "2"
    /\ f[Len(f)] \in {"x", "X"}

\* "if (!rom_data || rom_size == 0)"
NoRomNever == FALSE
NoRom == rom_data = NULL \/ rom_size = 0

\* "if (game_loaded) { PicoCartUnload(); ... }"
Unload == IF game_loaded # 0 THEN <<"PicoCartUnload">> ELSE << >>

pico_load_rom(filename, media_type, ahw32x) ==
    /\ pc = "idle"
    /\ IF emu_initialized = 0
       THEN /\ Done("pico_load_rom", 0, "not_initialized")
            /\ UNCHANGED <<game_loaded, video, snd_buffer, core, host>>
       ELSE IF NoRom
       THEN /\ Done("pico_load_rom", 0, "no_rom")
            /\ UNCHANGED <<game_loaded, video, snd_buffer, core, host>>
       ELSE IF media_type <= 0
       THEN /\ DoneCore("pico_load_rom", 0, "load_failed",
                        Unload \o <<"PicoLoadMedia">>)
            /\ game_loaded' = 0
            /\ core' = [core EXCEPT !.cart = FALSE]
            /\ UNCHANGED <<video, snd_buffer, host>>
       ELSE /\ DoneCore("pico_load_rom", 1, "ok",
                        Unload \o <<"PicoLoadMedia", "PicoLoopPrepare",
                                    "PsndRerate", "PicoDrawSetOutFormat",
                                    "PicoDrawSetOutBuf">>
                        \o (IF ~ahw32x /\ Ends32x(filename)
                            THEN <<"Pico32xStartup", "p32x_reset_sh2s">>
                            ELSE << >>))
            /\ game_loaded' = 1
            /\ snd_buffer' = << <<SND_MAX_SAMPLES * 2, 0>> >>
            /\ LET c == PicoDrawSetOutBuf(
                          PicoDrawSetOutFormat([core EXCEPT !.cart = TRUE],
                                               PDF_RGB555),
                          vout_width * 2)
               IN  IF ~ahw32x /\ Ends32x(filename)
                   THEN Startup32x(c, Fresh(host))
                   ELSE core' = c /\ host' = Fresh(host) /\ UNCHANGED video
    /\ UNCHANGED <<emu_initialized, rom_data, rom_size, blob, stream>>

pico_reset ==
    /\ pc = "idle"
    /\ IF game_loaded # 0
       THEN DoneCore("pico_reset", 0, "ok", <<"PicoReset">>)
       ELSE Done("pico_reset", 0, "no_game")
    /\ UNCHANGED <<lifecycle, video, snd_buffer, core, host, blob, stream>>

\* ev is what the core reports during the frame: << >> nothing, <<"32x">>
\* the start of the 32X, <<start_line, line_count, start_col, col_count>>
\* a mode change; fl is the flush it makes: << >> none, <<len>> a call of
\* PicoIn.writeSound(len); v is the first sample it leaves in the buffer
pico_run_frame(ev, fl, v) ==
    /\ pc = "idle"
    /\ IF game_loaded = 0
       THEN /\ Done("pico_run_frame", 0, "no_game")
            /\ UNCHANGED <<video, snd_buffer, core, host>>
       ELSE LET sb == PicoFrameSound(snd_buffer, v)
                h  == IF fl = << >> THEN Fresh(host)
                      ELSE snd_write(Fresh(host), sb, fl[1])
            IN
            /\ ret' = [Result("pico_run_frame", 0,
                              IF Len(ev) = 1 THEN "32x"
                              ELSE IF ev = << >> THEN "frame" ELSE "mode")
                         EXCEPT !.arg = <<ev, fl>>, !.calls = <<"PicoFrame">>]
            /\ hist' = NoHist
            /\ snd_buffer' = sb
            /\ IF Len(ev) = 1
               THEN Startup32x(core, h)
               ELSE IF ev = << >>
               THEN /\ vout_buf' = PicoFrameDraw(vout_buf, vout_offset)
                    /\ core' = [core EXCEPT !.dirtyPal = 0]
                    /\ host' = h
                    /\ UNCHANGED <<vout_width, vout_height, vout_offset,
                                   vm_current_start_line, vm_current_line_count,
                                   vm_current_start_col, vm_current_col_count>>
               ELSE ModeChange(core, h, ev[1], ev[2], ev[3], ev[4])
    /\ UNCHANGED <<lifecycle, blob, stream>>

\* the page installs or removes its handlers
HostHandlers(v, a) ==
    /\ pc = "idle"
    /\ host' = [host EXCEPT !.onVideoModeChange = v, !.onAudioWrite = a]
    /\ Done("host_handlers", 0, "ok")
    /\ UNCHANGED <<lifecycle, video, snd_buffer, core, blob, stream>>

(***************************************************************************)
(* State serialization bridge.                                             *)
(* pico_state_save and pico_state_load run in three parts: the call up to  *)
(* PicoStateFP, the callbacks PicoStateFP makes (one action each), and the *)
(* rest of the function once PicoStateFP has returned its status.          *)
(***************************************************************************)
\* "return 0" of pico_state_save / pico_state_load when PicoStateFP failed
SERIALIZER_FAIL == 0
\* "return 0" of pico_state_save / pico_state_load when no game is loaded
NO_GAME_FAIL == 0

\* malloc(STATE_MAX_SIZE): a fresh buffer of indeterminate bytes, or NULL
FreshMem == << <<STATE_MAX_SIZE, Uninit>> >>

\* sizes the host declares for a blob it is about to load
LoadSizes == {0, 2, STATE_MAX_SIZE + 1, -1}

\* element size and count the serializer passes to Read and Write
SerShapes == { <<1, 1>>, <<1, 2>>, <<STATE_MAX_SIZE - 1, 2>> }
\* the seeks the serializer makes: rewind, and one past the end
SerSeeks == { <<0, SEEK_SET>>, <<1, SEEK_END>> }
\* statuses PicoStateFP returns
Statuses == {-1, 0, 1}

\* the bytes of operand a: n bytes, the first a, the others 1 - a (of an
\* operand of 2^31 bytes or more, the first 2^31 - 1: more than any copy
\* that stays inside the buffer takes)
Operand(a, n) == Data(a, 1 - a, IF n < 0 THEN MaxInt ELSE n)

\* a malloc at every call, whether a buffer exists or not
StateAllocAlways == {NULL, IF state_buffer = BUF THEN "state_buffer_2" ELSE BUF}

\* "if (!state_buffer) state_buffer = malloc(STATE_MAX_SIZE)": the values
\* state_buffer may have afterwards
StateAlloc == IF state_buffer = NULL THEN {NULL, BUF} ELSE {state_buffer}

\* "if (!game_loaded)" of pico_state_save and pico_state_load
NoSessionNever == FALSE
NoSession == game_loaded = 0

pico_state_save ==
    /\ pc = "idle"
    /\ IF NoSession
       THEN /\ Done("pico_state_save", NO_GAME_FAIL, "no_game")
            /\ UNCHANGED <<blob, stream>>
       ELSE \E m \in StateAlloc :
              IF m = NULL
              THEN /\ Done("pico_state_save", 0, "no_memory")
                   /\ UNCHANGED <<blob, stream>>
              ELSE /\ state_buffer' = m
                   /\ state_mem' = IF state_buffer = NULL THEN FreshMem ELSE state_mem
                   /\ ctx' = state_context(NULL, m, STATE_MAX_SIZE, 0)
                   /\ pc' = "save"
                   /\ nops' = nops
                   /\ cb' = NoCb
                   /\ hist' = [NoHist EXCEPT !.seq = TRUE, !.before = HostBlob,
                                              !.had = BlobWritten]
                   /\ UNCHANGED <<state_size, ret>>
    /\ UNCHANGED <<lifecycle, video, snd_buffer, core, host>>

\* a callback made by PicoStateFP took effect: r is what it returned
Callback(op, req, r) ==
    /\ nops < MaxOps
    /\ nops' = nops + 1
    /\ cb' = CbOf(op, req, r)
    /\ ctx' = r.ctx
    /\ state_mem' = r.mem
    /\ pc' = IF r.ub THEN "ub" ELSE pc
    /\ UNCHANGED <<lifecycle, video, snd_buffer, core, host, state_buffer,
                   state_size, ret>>

SaveWrite(a, size, nmemb) ==
    /\ pc = "save"
    /\ LET req == MulW(size, nmemb)
           r   == state_write_cb(ctx, state_mem, Operand(a, req), size, nmemb)
       IN  /\ Callback("write", req, r)
           /\ hist' = [hist EXCEPT
                         !.wlog = IF hist.seq THEN RNorm(@ \o Operand(a, req)) ELSE @,
                         !.short = @ \/ r.ret # req]

SaveSeek(offset, whence) ==
    /\ pc = "save"
    /\ Callback("seek", offset, state_seek_cb(ctx, state_mem, offset, whence))
    /\ hist' = [hist EXCEPT !.seq = FALSE, !.wlog = << >>, !.sought = TRUE]

\* pico_state_save from the return of PicoStateFP on
SaveReturn(status) ==
    /\ pc = "save"
    /\ pc' = "idle"
    /\ ctx' = NoCtx
    /\ nops' = nops
    /\ cb' = NoCb
    /\ IF status # 0
       THEN /\ ret' = ResultCore("pico_state_save", SERIALIZER_FAIL, "serializer",
                              <<"PicoStateFP">>)
            /\ UNCHANGED state_size
       ELSE /\ ret' = ResultCore("pico_state_save", 1, "ok",
                              <<"PicoStateFP">>)
            /\ state_size' = ctx.pos
    /\ UNCHANGED <<lifecycle, video, snd_buffer, core, host, state_buffer,
                   state_mem>>
    /\ hist' = [hist EXCEPT !.before = << >>,
                            !.same = HostBlob' = hist.before,
                            !.seq = hist.seq /\ status = 0,
                            !.sought = FALSE,
                            !.final = IF status = 0 THEN ctx.pos ELSE 0,
                            !.wlog = IF hist.seq /\ status = 0 THEN @ ELSE << >>]

pico_get_state_load_buffer(size) ==
    /\ pc = "idle"
    /\ \E m \in StateAlloc :
         IF m = NULL
         THEN /\ Done("pico_get_state_load_buffer", NULL, "no_memory")
              /\ UNCHANGED blob
         ELSE /\ state_buffer' = m
              /\ state_mem' = IF state_buffer = NULL THEN FreshMem ELSE state_mem
              /\ state_size' = size
              /\ Done("pico_get_state_load_buffer", m, "ok")
    /\ UNCHANGED <<lifecycle, video, snd_buffer, core, host, stream>>

\* the host writes the blob it declared into the buffer it was handed
HostWrite(a) ==
    /\ pc = "idle"
    /\ ret.fn = "pico_get_state_load_buffer"
    /\ ret.val # NULL
    /\ state_size > 0 /\ state_size <= STATE_MAX_SIZE
    /\ state_mem' = RStore(state_mem, 0, Operand(a, state_size), state_size)
    /\ Done("host_write", 0, "ok")
    /\ UNCHANGED <<lifecycle, video, snd_buffer, core, host, state_buffer,
                   state_size, stream>>

pico_state_load ==
    /\ pc = "idle"
    /\ IF NoSession
       THEN /\ Done("pico_state_load", NO_GAME_FAIL, "no_game")
            /\ UNCHANGED stream
       ELSE IF state_buffer = NULL \/ state_size = 0
       THEN /\ Done("pico_state_load", 0, "no_data")
            /\ UNCHANGED stream
       ELSE /\ ctx' = state_context(state_buffer, NULL, state_size, 0)
            /\ pc' = "load"
            /\ nops' = nops
            /\ cb' = NoCb
            /\ hist' = IF ret.fn = "pico_state_save" /\ ret.val = 1 /\ hist.seq
                       THEN [NoHist EXCEPT !.rt = TRUE, !.wlog = hist.wlog]
                       ELSE NoHist
            /\ UNCHANGED ret
    /\ UNCHANGED <<lifecycle, video, snd_buffer, core, host, blob>>

LoadRead(size, nmemb) ==
    /\ pc = "load"
    /\ LET r == state_read_cb(ctx, state_mem, size, nmemb)
       IN  /\ Callback("read", MulW(size, nmemb), r)
           /\ hist' = [hist EXCEPT !.rlog = IF hist.rt THEN RNorm(@ \o r.data) ELSE @]

LoadEof ==
    /\ pc = "load"
    /\ Callback("eof", 0, state_eof_cb(ctx, state_mem))
    /\ hist' = hist

LoadSeek(offset, whence) ==
    /\ pc = "load"
    /\ Callback("seek", offset, state_seek_cb(ctx, state_mem, offset, whence))
    /\ hist' = [NoHist EXCEPT !.sought = TRUE]

\* pico_state_load from the return of PicoStateFP on
LoadReturn(status) ==
    /\ pc = "load"
    /\ pc' = "idle"
    /\ ctx' = NoCtx
    /\ nops' = nops
    /\ cb' = NoCb
    /\ hist' = NoHist
    /\ ret' = IF status # 0
              THEN ResultCore("pico_state_load", SERIALIZER_FAIL, "serializer",
                              <<"PicoStateFP">>)
              ELSE ResultCore("pico_state_load", 1, "ok",
                              <<"PicoStateFP">>)
    /\ UNCHANGED <<lifecycle, video, snd_buffer, core, host, blob>>

Next ==
    \/ main
    \/ pico_init
    \/ pico_exit
    \/ pico_get_rom_buffer(4)
    \/ \E mt \in {0, 1} : pico_load_rom(<<"a", ".", "b", "i", "n">>, mt, FALSE)
    \/ pico_state_save
    \/ \E a \in Bytes, sh \in SerShapes : SaveWrite(a, sh[1], sh[2])
    \/ \E sk \in SerSeeks : SaveSeek(sk[1], sk[2])
    \/ \E st \in Statuses : SaveReturn(st)
    \/ \E size \in LoadSizes : pico_get_state_load_buffer(size)
    \/ \E a \in Bytes : HostWrite(a)
    \/ pico_state_load
    \/ \E sh \in SerShapes : LoadRead(sh[1], sh[2])
    \/ LoadEof
    \/ \E sk \in SerSeeks : LoadSeek(sk[1], sk[2])
    \/ \E st \in Statuses : LoadReturn(st)

Spec == Init /\ [][Next]_vars

(***************************************************************************)
(* The bounded memory stream on its own: the context pico_state_save or    *)
(* pico_state_load has built, driven by any sequence of its callbacks with *)
(* arguments that reach the clip, the end of the buffer and the wrap of    *)
(* the 32-bit cursor.  A save stream serves Write, a load stream Read and  *)
(* Eof, both serve Seek; state_skip_cb is applied to either as the stream  *)
(* operation it is, although web.c hands it to no PicoStateFP call.        *)
(***************************************************************************)
StreamShapes == { <<1, 1>>, <<1, 2>>, <<STATE_MAX_SIZE - 1, 2>>, <<MaxInt, 2>> }
StreamOffsets == {-1, 1, MinInt + STATE_MAX_SIZE + 1}
Whences == {SEEK_SET, SEEK_CUR, SEEK_END}

Streaming == pc \in {"save", "load"}

Read(size, nmemb) ==
    /\ pc = "load"
    /\ Callback("read", MulW(size, nmemb), state_read_cb(ctx, state_mem, size, nmemb))
    /\ hist' = hist

Write(a, size, nmemb) ==
    /\ pc = "save"
    /\ Callback("write", MulW(size, nmemb),
                state_write_cb(ctx, state_mem, Operand(a, MulW(size, nmemb)),
                               size, nmemb))
    /\ hist' = hist

Skip(size, nmemb) ==
    /\ Streaming
    /\ Callback("skip", MulW(size, nmemb), state_skip_cb(ctx, state_mem, size, nmemb))
    /\ hist' = hist

Eof ==
    /\ pc = "load"
    /\ Callback("eof", 0, state_eof_cb(ctx, state_mem))
    /\ hist' = hist

Seek(offset, whence) ==
    /\ Streaming
    /\ Callback("seek", offset, state_seek_cb(ctx, state_mem, offset, whence))
    /\ hist' = [hist EXCEPT !.sought = TRUE]

NextStream ==
    \/ main
    \/ pico_get_rom_buffer(4)
    \/ pico_load_rom(<<"a", ".", "b", "i", "n">>, 1, FALSE)
    \/ pico_state_save
    \/ \E size \in LoadSizes : pico_get_state_load_buffer(size)
    \/ \E a \in Bytes : HostWrite(a)
    \/ pico_state_load
    \/ \E sh \in StreamShapes : Read(sh[1], sh[2])
    \/ \E a \in Bytes, sh \in StreamShapes : Write(a, sh[1], sh[2])
    \/ \E sh \in StreamShapes : Skip(sh[1], sh[2])
    \/ Eof
    \/ \E o \in StreamOffsets, w \in Whences : Seek(o, w)

SpecStream == Init /\ [][NextStream]_vars

(***************************************************************************)
(* The video presentation adapter on its own: a loaded game whose frames   *)
(* report mode changes and 32X startups, with well-formed and malformed    *)
(* mode values.                                                            *)
(***************************************************************************)
StartLines == {-1, 0, 8, VOUT_MAX_HEIGHT}
LineCounts == {0, 224, VOUT_MAX_HEIGHT, VOUT_MAX_HEIGHT + 1}
StartCols == {-1, 0}
ColCounts == {0, 256, VOUT_MAX_WIDTH, VOUT_MAX_WIDTH + 1}
VideoModes == StartLines \X LineCounts \X StartCols \X ColCounts

NextVideo ==
    \/ main
    \/ pico_get_rom_buffer(4)
    \/ \E f \in Filenames, mt \in {0, 1}, ahw \in BOOLEAN : pico_load_rom(f, mt, ahw)
    \/ \E ev \in VideoModes \cup {<< >>, <<"32x">>} : pico_run_frame(ev, << >>, 1)
    \/ HostHandlers(TRUE, FALSE)

SpecVideo == Init /\ [][NextVideo]_vars

(***************************************************************************)
(* The audio path on its own: frames whose core flushes the sample buffer  *)
(* through PicoIn.writeSound, with and without a consumer on the page.     *)
(***************************************************************************)
\* byte lengths the core flushes: nothing, less than a frame, one frame, a
\* frame and a half, the NTSC-sized packet of the example, the whole buffer
AudioLens == {0, 3, 4, 6, 176, SND_MAX_SAMPLES * 4}
\* the first sample the core leaves in the buffer
FirstSamples == {1, 2}

NextAudio ==
    \/ main
    \/ pico_get_rom_buffer(4)
    \/ pico_load_rom(<<"a", ".", "b", "i", "n">>, 1, FALSE)
    \/ \E a \in BOOLEAN : HostHandlers(FALSE, a)
    \/ \E fl \in {<< >>} \cup {<<len>> : len \in AudioLens}, v \in FirstSamples :
          pico_run_frame(<< >>, fl, v)

SpecAudio == Init /\ [][NextAudio]_vars

(***************************************************************************)
(* The lifecycle on its own: the calls in every order, in valid and in     *)
(* invalid states, with a mode change so that the video state leaves its   *)
(* initial value and a declared blob so that the state blob does.          *)
(***************************************************************************)
RomSizes == {0, 4}

NextLife ==
    \/ main
    \/ pico_init
    \/ pico_exit
    \/ \E size \in RomSizes : pico_get_rom_buffer(size)
    \/ \E mt \in {0, 1} : pico_load_rom(<<"a", ".", "b", "i", "n">>, mt, FALSE)
    \/ pico_reset
    \/ \E ev \in {<< >>, <<8, 224, 0, 320>>} : pico_run_frame(ev, << >>, 1)
    \/ \E size \in {0, 2} : pico_get_state_load_buffer(size)

SpecLife == Init /\ [][NextLife]_vars

(***************************************************************************)
(* Properties.                                                             *)
(***************************************************************************)
\* the cursor, read as the size_t it is, is at most the capacity
CursorInRange(c) == ~GtU(c.pos, c.size)

\* bytes [start, start + n) all have an index in [0, capacity)
InCapacity(c, start, n) ==
    n = 0 \/ (~GeU(start, c.size) /\ ~GtU(n, SubW(c.size, start)))

\* C1: whatever Read, Write, Skip and Seek calls a stream has served since
\* it was built with cursor 0, its cursor satisfies 0 <= cursor <= capacity.
C1_CursorWithinCapacity == Streaming => CursorInRange(ctx)

\* C2: once a stream has served a Seek, every Read and Write copies only
\* bytes whose index lies in [0, capacity), and with the cursor outside that
\* range it transfers nothing.  (Stated for requests of at most
\* STATE_MAX_SIZE bytes: the wrap in question is the cursor's.)
C2_CopiesInsideCapacity ==
    (/\ cb.op \in {"read", "write"}
     /\ hist.sought
     /\ cb.req >= 0 /\ cb.req <= STATE_MAX_SIZE) =>
        /\ InCapacity(ctx, cb.copy[1], cb.copy[2])
        /\ GeU(cb.copy[1], ctx.size) => cb.ret = 0

\* C8: the offset handed out by pico_get_video_buffer satisfies
\* 0 <= offset <= width * (VOUT_MAX_HEIGHT - 1) * 2 after any mode changes
\* and hardware startups.
C8_OffsetInRange ==
    /\ 0 <= pico_get_video_buffer
    /\ pico_get_video_buffer <= vout_width * (VOUT_MAX_HEIGHT - 1) * 2

\* C9: the visible width never exceeds VOUT_MAX_WIDTH and the visible
\* height never exceeds VOUT_MAX_HEIGHT.
C9_SizeWithinBuffer ==
    /\ vout_width <= VOUT_MAX_WIDTH
    /\ vout_height <= VOUT_MAX_HEIGHT

\* C10: after a mode change with line_count > VOUT_MAX_HEIGHT the visible
\* height is VOUT_MAX_HEIGHT and the visible rectangle, bytes
\* offset .. offset + width * height * 2, lies inside the pixel buffer.
\* (Stated for start_line >= 0 and 0 <= col_count <= VOUT_MAX_WIDTH, the
\* mode reports whose offset and width are in range.)
C10_ClampedRectangleInside ==
    (/\ vm_current_line_count > VOUT_MAX_HEIGHT
     /\ vm_current_start_line >= 0
     /\ vm_current_col_count >= 0
     /\ vm_current_col_count <= VOUT_MAX_WIDTH) =>
        /\ vout_height = VOUT_MAX_HEIGHT
        /\ 0 <= vout_offset
        /\ VisibleEnd <= VoutBytes

\* C3: when the serializer reports a nonzero status the save fails and the
\* host's view of the blob (the buffer's bytes, pico_get_state_size,
\* pico_state_exists) is the one it had before the save was called.  (Stated
\* for a save called while a blob exists.)
C3_FailedSaveKeepsBlob ==
    (pc = "idle" /\ ret.fn = "pico_state_save" /\ ret.why = "serializer"
                 /\ hist.had) =>
        ret.val = 0 /\ hist.same

\* C4: a save during which a Write was clipped returns failure.
C4_TruncatedSaveFails ==
    (pc = "idle" /\ ret.fn = "pico_state_save" /\ ret.val = 1) => ~hist.short

\* C5: a load that directly follows a successful save reads a stream whose
\* capacity is the number of bytes the serializer wrote, and what it has read
\* so far is the beginning of what the serializer wrote.
C5_RoundTrip ==
    (pc = "load" /\ hist.rt) =>
        /\ ctx.size = RLen(hist.wlog)
        /\ hist.rlog = RSlice(hist.wlog, 0, RLen(hist.rlog))

\* a step that is a call of pico_state_save / pico_state_load: it returns at
\* once or it enters the serializer
SaveCalled ==
    pc = "idle" /\ ((pc' = "idle" /\ ret'.fn = "pico_state_save") \/ pc' = "save")
LoadCalled ==
    pc = "idle" /\ ((pc' = "idle" /\ ret'.fn = "pico_state_load") \/ pc' = "load")

\* C6: pico_state_save with no game loaded, and pico_state_load with no game
\* loaded or with a declared size of 0, return 0 at once and leave the pixel
\* buffer, the sample buffer, the state buffer and the state's size as they
\* were.
C6_NoSessionNoChange ==
    [][ (\/ SaveCalled /\ game_loaded = 0
         \/ LoadCalled /\ (game_loaded = 0 \/ state_size = 0))
        => (/\ pc' = "idle"
            /\ ret'.val = 0
            /\ UNCHANGED <<vout_buf, snd_buffer, state_buffer, state_mem,
                           state_size>>) ]_vars

\* a save was refused for want of a game while a blob of nonzero size sits
\* in the allocated state buffer
C6_Witness ==
    /\ ret.fn = "pico_state_save" /\ ret.why = "no_game"
    /\ game_loaded = 0
    /\ state_buffer # NULL /\ state_size # 0
    /\ state_mem # FreshMem

\* C7: the value save and load return when no game is loaded differs from
\* the value they return when the serializer fails.
C7_DistinctFailures ==
    (/\ pc = "idle"
     /\ ret.fn \in {"pico_state_save", "pico_state_load"}
     /\ ret.why = "no_game") => ret.val # SERIALIZER_FAIL

\* the smaller of two integers
Min(a, b) == IF a <= b THEN a ELSE b

\* the last call was a frame during which the core reported a mode change
AfterModeChange ==
    pc = "idle" /\ ret.fn = "pico_run_frame" /\ ret.why = "mode"

\* C11: after a mode change (start_line, line_count, start_col, col_count)
\* the four values are cached, width = col_count, height = min(line_count,
\* VOUT_MAX_HEIGHT), offset = min(width * start_line * 2, width *
\* (VOUT_MAX_HEIGHT - 1) * 2), every sample of the pixel buffer is zero, the
\* core's pitch is width * 2, the palette is dirty, and a host that has
\* installed its handler was notified once, with the width and height the
\* queries return.
C11_ModeChangeApplied ==
    AfterModeChange =>
        LET ev == ret.arg[1] IN
        /\ <<vm_current_start_line, vm_current_line_count,
             vm_current_start_col, vm_current_col_count>> = ev
        /\ pico_get_video_width = ev[4]
        /\ pico_get_video_height = Min(ev[2], VOUT_MAX_HEIGHT)
        /\ pico_get_video_buffer =
               Min(ev[4] * ev[1] * 2, ev[4] * (VOUT_MAX_HEIGHT - 1) * 2)
        /\ RLen(vout_buf) = VOUT_MAX_WIDTH * VOUT_MAX_HEIGHT
        /\ \A i \in 1..Len(vout_buf) : vout_buf[i][2] = 0
        /\ core.out_pitch = ev[4] * 2
        /\ core.dirtyPal = 1
        /\ host.onVideoModeChange =>
               /\ host.notes = 1
               /\ host.video = <<pico_get_video_width, pico_get_video_height>>

\* the mode change (8, 224, 0, 320) was reported to a listening host after a
\* frame had been drawn: width 320, height 224, offset 5120
C11_Witness ==
    /\ AfterModeChange
    /\ ret.arg[1] = <<8, 224, 0, 320>>
    /\ pico_get_video_width = 320
    /\ pico_get_video_height = 224
    /\ pico_get_video_buffer = 5120
    /\ host.video = <<320, 224>>
    /\ snd_buffer # << <<SND_MAX_SAMPLES * 2, 0>> >>

\* a step that is a frame during which the core reported the start of the 32X
Startup32xStep ==
    /\ pc = "idle" /\ pc' = "idle"
    /\ ret'.fn = "pico_run_frame" /\ ret'.why = "32x"

\* C12: the 32X startup sets the output format; if a mode change has been
\* reported before, it replays the cached mode through the whole mode-change
\* procedure (width, height and offset as that mode gives them, the pixel
\* buffer cleared, the palette dirty, a listening host notified); if none
\* has, it only sets the pitch to width * 2 and leaves width, height, offset,
\* the cached mode and the pixels as they were.
C12_StartupReplaysMode ==
    [][ Startup32xStep =>
          /\ core'.out_format = PDF_RGB555
          /\ UNCHANGED <<vm_current_start_line, vm_current_line_count,
                         vm_current_start_col, vm_current_col_count>>
          /\ IF core.reported
             THEN /\ vout_width' = vm_current_col_count
                  /\ vout_height' = Min(vm_current_line_count, VOUT_MAX_HEIGHT)
                  /\ vout_offset' =
                        Min(vm_current_col_count * vm_current_start_line * 2,
                            vm_current_col_count * (VOUT_MAX_HEIGHT - 1) * 2)
                  /\ vout_buf' = VoutZero
                  /\ core'.out_pitch = vm_current_col_count * 2
                  /\ core'.dirtyPal = 1
                  /\ host.onVideoModeChange =>
                        /\ host'.notes = 1
                        /\ host'.video = <<vout_width', vout_height'>>
             ELSE /\ core'.out_pitch = vout_width * 2
                  /\ UNCHANGED <<vout_width, vout_height, vout_offset,
                                 vout_buf>> ]_vars

\* the last callback was a Write of cb.req bytes, made with the cursor at
\* cb.copy[1] inside the stream, and fewer bytes than that remained
ShortWrite ==
    /\ cb.op = "write"
    /\ cb.req >= 0
    /\ 0 <= cb.copy[1] /\ cb.copy[1] <= ctx.size
    /\ cb.req > ctx.size - cb.copy[1]

\* C13: a Write of n bytes with only k < n bytes left between the cursor
\* and the capacity copies exactly the first k bytes of its operand to the
\* cursor, returns k and leaves the cursor at the capacity; with k = 0 it
\* copies nothing and returns 0.  (Stated for n < 2^31: an operand of 2^32 - 2
\* bytes cannot exist beside the buffer in a 32-bit address space.)
C13_ShortWriteTakesRest ==
    ShortWrite =>
        LET k == ctx.size - cb.copy[1] IN
        /\ pc # "ub"
        /\ cb.ret = k
        /\ cb.copy[2] = k
        /\ ctx.pos = ctx.size
        /\ RLen(state_mem) = STATE_MAX_SIZE
        /\ k > 0 => \E a \in Bytes :
                      /\ cb.data = RSlice(Operand(a, cb.req), 0, k)
                      /\ RSlice(state_mem, cb.copy[1], k) = cb.data

\* a Write of 4194302 bytes made with the cursor at 1 took 2097151 bytes
C13_Witness ==
    /\ ShortWrite
    /\ pc = "save"
    /\ cb.req = 2 * (STATE_MAX_SIZE - 1)
    /\ cb.copy[1] = 1
    /\ cb.ret = STATE_MAX_SIZE - 1
    /\ ctx.pos = STATE_MAX_SIZE

\* the last callback was a Read of cb.req bytes from a stream whose capacity
\* is inside the backing buffer and whose cursor a Seek has placed
ReadServed ==
    /\ cb.op = "read"
    /\ cb.req >= 0
    /\ hist.sought
    /\ ctx.size > 0 /\ ctx.size <= STATE_MAX_SIZE

\* C14: a Read of n bytes with the cursor below the capacity returns
\* min(n, capacity - cursor) bytes, those of the backing buffer from the
\* cursor on, and advances the cursor by as many; with the cursor at or past
\* the capacity it returns 0 and leaves the cursor where it was.  (Stated
\* for n < 2^31, a capacity of at most STATE_MAX_SIZE bytes, and a cursor
\* that a Seek has placed.)
C14_ReadReturnsMin ==
    ReadServed =>
        LET pos0 == cb.copy[1] IN
        /\ pc # "ub"
        /\ IF GeU(pos0, ctx.size)
           THEN cb.ret = 0 /\ cb.copy[2] = 0 /\ ctx.pos = pos0
           ELSE LET k == Min(cb.req, ctx.size - pos0) IN
                /\ cb.ret = k
                /\ ctx.pos = pos0 + k
                /\ cb.data = RSlice(state_mem, pos0, k)

\* the last callback was a Read from a load stream, made with the cursor
\* past the end, where a Seek had put it
ReadPastEnd ==
    /\ cb.op = "read"
    /\ cb.req >= 0
    /\ hist.sought
    /\ ctx.load_buf # NULL
    /\ ctx.size > 0 /\ ctx.size <= STATE_MAX_SIZE
    /\ GtU(cb.copy[1], ctx.size)

\* C15: once a Seek has put the cursor of a load stream past its end, a
\* Read returns no byte and Eof answers true; and whenever Eof is asked it
\* answers true exactly when cursor >= capacity, the capacity being the size
\* the host declared.
C15_PastEndReadsNothing ==
    /\ ReadPastEnd =>
          /\ pc # "ub"
          /\ cb.ret = 0
          /\ cb.copy[2] = 0
          /\ state_eof_cb(ctx, state_mem).ret = 1
    /\ (cb.op = "eof" /\ ctx.load_buf # NULL) =>
          /\ ctx.size = state_size
          /\ cb.ret = 1 <=> GeU(ctx.pos, ctx.size)

\* the last call was a pico_state_save that returned 1
SaveSucceeded ==
    pc = "idle" /\ ret.fn = "pico_state_save" /\ ret.val = 1

\* C16: after a successful pico_state_save, pico_get_state_size returns the
\* cursor the save stream ended with, and that is at most STATE_MAX_SIZE.
C16_SizeIsFinalCursor ==
    SaveSucceeded =>
        /\ pico_get_state_size = hist.final
        /\ 0 <= pico_get_state_size
        /\ pico_get_state_size <= STATE_MAX_SIZE

\* a step that is one of the lifecycle calls made in an invalid state
InvalidCall ==
    /\ pc = "idle" /\ pc' = "idle"
    /\ \/ ret'.fn = "pico_init" /\ emu_initialized # 0
       \/ ret'.fn = "pico_exit" /\ emu_initialized = 0
       \/ ret'.fn = "pico_reset" /\ game_loaded = 0
       \/ ret'.fn = "pico_run_frame" /\ game_loaded = 0
       \/ /\ ret'.fn = "pico_load_rom"
          /\ emu_initialized = 0 \/ rom_data = NULL \/ rom_size = 0

\* C17: pico_init when initialized, pico_exit when not initialized,
\* pico_reset and pico_run_frame with no game loaded, and pico_load_rom
\* before initialization or without a ROM buffer (which returns 0) leave the
\* initialized flag, the game-loaded flag, the video state and the state
\* blob as they were and call no function of the core.
C17_InvalidCallsAreNoOps ==
    [][ InvalidCall =>
          /\ UNCHANGED <<emu_initialized, game_loaded, video, blob, core,
                         snd_buffer, host>>
          /\ ret'.calls = << >>
          /\ ret'.fn = "pico_load_rom" => ret'.val = 0 ]_vars

\* a load was refused for want of a ROM buffer while a game is loaded, a
\* mode change has been applied and a blob is declared
C17_Witness ==
    /\ pc = "idle"
    /\ ret.fn = "pico_load_rom" /\ ret.why = "no_rom"
    /\ emu_initialized = 1 /\ game_loaded = 1
    /\ vout_offset = 5120
    /\ state_buffer # NULL /\ state_size = 2

\* a step that allocates the state buffer
StateAllocated == state_buffer = NULL /\ state_buffer' # NULL

\* C18: the state buffer is allocated at most once, by a save or by a
\* load-buffer request; from then on state_buffer never changes, whatever
\* is called (pico_exit, pico_init and pico_load_rom included), and every
\* save and load stream is built on it.
C18_OneStateBuffer ==
    /\ [](Streaming => (/\ state_buffer # NULL
                        /\ ctx.load_buf \in {NULL, state_buffer}
                        /\ ctx.save_buf \in {NULL, state_buffer}
                        /\ ctx.load_buf # ctx.save_buf))
    /\ [][ /\ state_buffer # NULL => state_buffer' = state_buffer
           /\ StateAllocated =>
                 (pc' = "save" \/ ret'.fn = "pico_get_state_load_buffer") ]_vars

\* the buffer a save filled is still there after pico_exit
C18_Witness ==
    /\ pc = "idle"
    /\ ret.fn = "pico_exit" /\ ret.why = "ok"
    /\ state_buffer # NULL
    /\ state_size = 1
    /\ state_mem # FreshMem

\* a step that is a frame whose core flushes the sample buffer
FlushStep ==
    /\ pc = "idle" /\ pc' = "idle"
    /\ ret'.fn = "pico_run_frame" /\ ret'.why = "frame"
    /\ ret'.arg[2] # << >>

\* C19: a flush of b bytes hands a registered consumer exactly one packet,
\* the first 2 * floor(b / 4) int16 values of the sample buffer, whatever
\* was delivered before; with no consumer nothing is delivered and nothing
\* of the layer's state changes.
C19_OnePacketPerFlush ==
    [][ FlushStep =>
          LET b == ret'.arg[2][1]
              n == 2 * (b \div 4)
          IN  /\ host'.onAudioWrite = host.onAudioWrite
              /\ host.onAudioWrite =>
                    /\ Len(host'.audio) = 1
                    /\ RLen(host'.audio[1]) = n
                    /\ host'.audio[1] = RSlice(snd_buffer', 0, n)
              /\ ~host.onAudioWrite =>
                    /\ host' = Fresh(host)
                    /\ host'.audio = << >>
                    /\ UNCHANGED <<lifecycle, blob, stream, vout_width,
                                   vout_height, vout_offset>> ]_vars

\* the example: 176 bytes, 44 stereo frames in one packet
C19_Witness ==
    /\ pc = "idle"
    /\ ret.fn = "pico_run_frame" /\ ret.why = "frame"
    /\ ret.arg[2] = <<176>>
    /\ host.onAudioWrite
    /\ host.audio = << << <<1, 2>>, <<87, 0>> >> >>

\* a Read the serializer made on a load stream it has not repositioned
PlainRead ==
    /\ pc \in {"load", "ub"}
    /\ cb.op = "read"
    /\ ~hist.sought

\* C20: whatever size the host declared through pico_get_state_load_buffer,
\* larger than STATE_MAX_SIZE and negative included, the capacity of the
\* load stream is at most STATE_MAX_SIZE and no Read of a load takes bytes
\* from beyond the backing buffer.
C20_LoadCapacityBounded ==
    /\ pc = "load" => ~GtU(ctx.size, STATE_MAX_SIZE)
    /\ PlainRead => InBuffer(ctx.load_buf, cb.copy[1], cb.copy[2])

====
